---- MODULE Spec2Model ----
(***************************************************************************)
(* Model of mockgen's command-line driver (mockgen/cli/cli.go, func main)  *)
(* and of the extractors and the generator it drives.                      *)
(*                                                                         *)
(* A Go string is modelled as a sequence of symbols: the empty string is   *)
(* <<>>, "A,B" is <<"A", ",", "B">>, "Mock"+"A" is <<"Mock", "A">>.        *)
(* cmdline is the command line of the run; the flag variables hold their  *)
(* defaults until flag.Parse assigns them from it.                         *)
(***************************************************************************)
EXTENDS Integers, Sequences, FiniteSets, TLC

VARIABLES
    cmdline,
    source, showVersion, debugParser, args, excludeInterfaces, mockNames,
    destination,
    pc, pkg, err, cwdErr, packageName, interfaces,
    calls, exitStatus, logged, usagePrinted, stdout,
    child, elapsed, childOut,
    plan, buf, genErr, outErr, dest

flagVars == <<cmdline, source, showVersion, debugParser, args, excludeInterfaces,
              mockNames, destination>>
mainVars == <<pc, pkg, err, cwdErr, packageName, interfaces>>
obsVars  == <<calls, exitStatus, logged, usagePrinted, stdout>>
childVars == <<child, elapsed, childOut>>
genVars  == <<plan, buf, genErr, outErr, dest>>
vars == <<flagVars, mainVars, obsVars, childVars, genVars>>

----------------------------------------------------------------------------
(* Bounds *)
MaxDecls == 2
ChildTimeout == 2

(* Symbols and strings *)
Comma == ","
Equals == "="
Empty == <<>>
Dot == <<".">>
Pkg == <<"pkg">>
CwdPkg == <<"cwdpkg">>
SrcPkg == <<"srcpkg">>
NameA == <<"A">>
NameB == <<"B">>
NameC == <<"C">>
Names == {NameA, NameB, NameC}
ListAB == <<"A", ",", "B">>

SourceChoices == {Empty, <<"foo.go">>}
ArgChoices == {<<>>, <<Pkg>>, <<Pkg, ListAB>>, <<Dot, ListAB>>,
               <<Dot, NameA>>, <<Pkg, ListAB, Pkg>>}
ExcludeChoices == {Empty, NameB, <<"A", ",", "C">>}
MockNameChoices == {Empty, <<"A", "=", "Mock", "B">>, <<"B", "=", "Fake">>}
DestinationChoices == {Empty, <<"out.go">>}

(* Command lines: form "ok" is accepted by flag.Parse, "bad" has an
   undefined flag or a bad or missing flag value, "help" has -h or -help;
   the other fields are what the command line gives for each flag and the
   positional arguments *)
CmdLine(f, src, ver, dbg, a, ex, mn, dst) ==
    [form |-> f, source |-> src, showVersion |-> ver, debugParser |-> dbg,
     args |-> a, excludeInterfaces |-> ex, mockNames |-> mn,
     destination |-> dst]
AcceptedCmdLines ==
    {CmdLine("ok", src, ver, dbg, a, ex, mn, dst) :
        src \in SourceChoices, ver \in BOOLEAN, dbg \in BOOLEAN,
        a \in ArgChoices, ex \in ExcludeChoices, mn \in MockNameChoices,
        dst \in DestinationChoices}
RejectedCmdLines ==
    {CmdLine(f, src, FALSE, FALSE, a, Empty, Empty, Empty) :
        f \in {"bad", "help"}, src \in SourceChoices, a \in ArgChoices}
CmdLines == AcceptedCmdLines \cup RejectedCmdLines

Range(s) == {s[i] : i \in 1..Len(s)}
DeclChoices ==
    {d \in UNION {[1..n -> Names] : n \in 1..MaxDecls} :
        \A i, j \in 1..Len(d) : i # j => d[i] # d[j]}

(* Errors *)
NoErr == "none"
SourceErrors == {"ParseError", "TypeResolutionError"}

(* Process status: -1 while main is running *)
Running == -1

(* model.Package; a nil *model.Package is Nil *)
Nil == [valid |-> FALSE, Name |-> Empty, Interfaces |-> <<>>]
Package(name, ifaces) == [valid |-> TRUE, Name |-> name, Interfaces |-> ifaces]

Call(op, loc, syms, p) == [op |-> op, loc |-> loc, syms |-> syms, pkg |-> p]
CallsOf(op) == {i \in 1..Len(calls) : calls[i].op = op}
Count(op) == Cardinality(CallsOf(op))

----------------------------------------------------------------------------
(* strings.Split(s, sep): always at least one element *)
RECURSIVE Split(_, _)
Split(s, sep) ==
    IF s = <<>> THEN << <<>> >>
    ELSE IF Head(s) = sep THEN << <<>> >> \o Split(Tail(s), sep)
    ELSE LET r == Split(Tail(s), sep)
         IN  << <<Head(s)>> \o Head(r) >> \o Tail(r)

(* flag.NArg and flag.Arg(i) (0-based; "" when absent) *)
NArg == Len(args)
Arg(i) == IF i + 1 <= Len(args) THEN args[i + 1] ELSE Empty

(* generator.Flags built by main *)
Flags == [Source |-> source, Destination |-> destination,
          MockNames |-> mockNames, ExcludeInterfaces |-> excludeInterfaces]

(* flag.Parse on flag.CommandLine (ExitOnError): a rejected command line
   ends the process with status 2, a request for help with status 0 *)
ParseAccepts(form) == form = "ok"
ParseExitStatus(form) == IF form = "help" THEN 0 ELSE 2

(* the conditions main branches on *)
UseSourceMode_Inverted(src) == src = Empty
UseSourceMode(src) == src # Empty
WrongArgCount(n) == n # 2
IsDot_Never(p) == FALSE
IsDot(p) == p = Dot
LoadFailed(e) == e # NoErr
DumpOnly_Off(d) == FALSE
DumpOnly_Inverted(d) == ~d
DumpOnly(d) == d
GenerateFailed_Ignored(e) == FALSE
GenerateFailed(e) == e # NoErr
OutputFailed_Ignored(e) == FALSE
OutputFailed(e) == e # NoErr

----------------------------------------------------------------------------
(* Source Extractor: drops the excluded interfaces before building the Model *)
ExcludeSet(s) == {x \in Range(Split(s, Comma)) : x # Empty}
DropExcluded(decls, ex) ==
    SelectSeq(decls, LAMBDA n : n \notin ExcludeSet(ex))
SourceModeResult(decls, ex) == Package(SrcPkg, DropExcluded(decls, ex))

(* Reflect Extractor: the child's output is the prefix of the requested
   symbols it managed to encode; a Package comes only from a complete,
   well-formed output of a child that exited with status zero in time *)
ChildFailures == {"startfail", "nonzero", "malformed"}
ChildOutputs(syms) ==
    {[outcome |-> "ok", decoded |-> syms]} \cup
    {[outcome |-> o, decoded |-> SubSeq(syms, 1, k)] :
        o \in ChildFailures, k \in 0..(Len(syms) - 1)}
Expired_Never(t) == FALSE
Expired(t) == t >= ChildTimeout
ReflectModeResult(loc, state, out) ==
    IF state = "exited" /\ out.outcome = "ok"
    THEN [pkg |-> Package(loc, out.decoded), err |-> NoErr]
    ELSE [pkg |-> Nil, err |-> "ReflectionExecutionError"]

(* Generator: output names *)
DefaultMockName(name) == <<"Mock">> \o name
MockNameFor(name, spec) ==
    LET parts == Split(spec, Comma)
        kv(i) == Split(parts[i], Equals)
        hits == {i \in 1..Len(parts) : Len(kv(i)) = 2 /\ kv(i)[1] = name}
    IN  IF hits = {} THEN DefaultMockName(name)
        ELSE kv(CHOOSE i \in hits : \A j \in hits : j <= i)[2]
NameTaken_Never(p, mock) == FALSE
NameTaken(p, mock) == \E j \in 1..Len(p) : p[j].mock = mock

----------------------------------------------------------------------------
Init ==
    /\ cmdline \in CmdLines
    /\ source = Empty
    /\ showVersion = FALSE
    /\ debugParser = FALSE
    /\ args = <<>>
    /\ excludeInterfaces = Empty
    /\ mockNames = Empty
    /\ destination = Empty
    /\ pc = "parse"
    /\ pkg = Nil
    /\ err = NoErr
    /\ cwdErr = NoErr
    /\ packageName = Empty
    /\ interfaces = <<>>
    /\ calls = <<>>
    /\ exitStatus = Running
    /\ logged = <<>>
    /\ usagePrinted = FALSE
    /\ stdout = "nothing"
    /\ child = "none"
    /\ elapsed = 0
    /\ childOut = [outcome |-> "none", decoded |-> <<>>]
    /\ plan = <<>>
    /\ buf = <<>>
    /\ genErr = NoErr
    /\ outErr = NoErr
    /\ dest = [written |-> FALSE, content |-> <<>>]

(* log.Fatal / log.Fatalf: one message, then os.Exit(1) *)
Fatal(msg) ==
    /\ logged' = Append(logged, msg)
    /\ exitStatus' = 1
    /\ pc' = "exit"

(* return from main *)
Return ==
    /\ exitStatus' = 0
    /\ pc' = "exit"

\* flag.Usage = usage; flag.Parse(): an accepted command line sets the flag
\* variables and the positional arguments; otherwise flag.Parse prints its
\* error (none for -h/-help), calls usage() and exits
FlagParse ==
    /\ pc = "parse"
    /\ IF ParseAccepts(cmdline.form)
       THEN /\ source' = cmdline.source
            /\ showVersion' = cmdline.showVersion
            /\ debugParser' = cmdline.debugParser
            /\ args' = cmdline.args
            /\ excludeInterfaces' = cmdline.excludeInterfaces
            /\ mockNames' = cmdline.mockNames
            /\ destination' = cmdline.destination
            /\ pc' = "main"
            /\ UNCHANGED <<exitStatus, logged, usagePrinted>>
       ELSE /\ logged' = IF cmdline.form = "help" THEN logged
                         ELSE Append(logged, "flag parse error")
            /\ usagePrinted' = TRUE
            /\ exitStatus' = ParseExitStatus(cmdline.form)
            /\ pc' = "exit"
            /\ UNCHANGED <<source, showVersion, debugParser, args,
                           excludeInterfaces, mockNames, destination>>
    /\ UNCHANGED <<cmdline, pkg, err, cwdErr, packageName, interfaces,
                   calls, stdout, childVars, genVars>>

\* if showVersion { printVersion(); return }
PrintVersion ==
    /\ pc = "main"
    /\ showVersion
    /\ stdout' = "version"
    /\ Return
    /\ UNCHANGED <<flagVars, pkg, err, cwdErr, packageName, interfaces,
                   calls, logged, usagePrinted, childVars, genVars>>

\* pkg, err = generator.SourceMode(source, imports, excludeInterfaces, auxFiles)
CallSourceMode ==
    /\ pc = "main"
    /\ ~showVersion
    /\ UseSourceMode(source)
    /\ \/ \E decls \in DeclChoices :
            /\ pkg' = SourceModeResult(decls, excludeInterfaces)
            /\ err' = NoErr
       \/ \E e \in SourceErrors :
            /\ pkg' = Nil
            /\ err' = e
    /\ calls' = Append(calls, Call("SourceMode", source, <<>>, pkg'))
    /\ pc' = "loaded"
    /\ UNCHANGED <<flagVars, cwdErr, packageName, interfaces, exitStatus,
                   logged, usagePrinted, stdout, childVars, genVars>>

(* if flag.NArg() != 2 { usage(); log.Fatal(...) } *)
UsageFatal ==
    /\ pc = "main"
    /\ ~showVersion
    /\ ~UseSourceMode(source)
    /\ WrongArgCount(NArg)
    /\ usagePrinted' = TRUE
    /\ Fatal("Expected exactly two arguments")
    /\ UNCHANGED <<flagVars, pkg, err, cwdErr, packageName, interfaces,
                   calls, stdout, childVars, genVars>>

(* packageName = flag.Arg(0); interfaces := strings.Split(flag.Arg(1), ",") *)
ReadArgs ==
    /\ pc = "main"
    /\ ~showVersion
    /\ ~UseSourceMode(source)
    /\ ~WrongArgCount(NArg)
    /\ packageName' = Arg(0)
    /\ interfaces' = Split(Arg(1), Comma)
    /\ pc' = IF IsDot(packageName') THEN "getwd" ELSE "reflect"
    /\ UNCHANGED <<flagVars, pkg, err, cwdErr, obsVars, childVars, genVars>>

(* dir, err := os.Getwd() *)
Getwd ==
    /\ pc = "getwd"
    /\ \/ /\ cwdErr' = NoErr
          /\ pc' = "pkgname"
          /\ UNCHANGED <<logged, exitStatus>>
       \/ /\ cwdErr' = "GetwdError"
          /\ Fatal("Get current directory failed")
    /\ calls' = Append(calls, Call("Getwd", Empty, <<>>, Nil))
    /\ UNCHANGED <<flagVars, pkg, err, packageName, interfaces,
                   usagePrinted, stdout, childVars, genVars>>

(* packageName, err = generator.PackageNameOfDir(dir) *)
PackageNameOfDir ==
    /\ pc = "pkgname"
    /\ \/ /\ cwdErr' = NoErr
          /\ packageName' = CwdPkg
          /\ pc' = "reflect"
          /\ UNCHANGED <<logged, exitStatus>>
       \/ /\ cwdErr' = "PackageNameError"
          /\ packageName' = Empty
          /\ Fatal("Parse package name failed")
    /\ calls' = Append(calls, Call("PackageNameOfDir", packageName', <<>>, Nil))
    /\ UNCHANGED <<flagVars, pkg, err, interfaces,
                   usagePrinted, stdout, childVars, genVars>>

\* pkg, err = generator.ReflectMode(packageName, interfaces): the call
\* starts the introspection child process
ReflectStart ==
    /\ pc = "reflect"
    /\ calls' = Append(calls, Call("ReflectMode", packageName, interfaces, Nil))
    /\ child' = "running"
    /\ pc' = "reflectWait"
    /\ UNCHANGED <<flagVars, pkg, err, cwdErr, packageName, interfaces,
                   exitStatus, logged, usagePrinted, stdout, elapsed,
                   childOut, genVars>>

\* the child ends by itself (it may also never do so)
ChildExit ==
    /\ pc = "reflectWait"
    /\ child = "running"
    /\ ~Expired(elapsed)
    /\ \E out \in ChildOutputs(interfaces) : childOut' = out
    /\ child' = "exited"
    /\ UNCHANGED <<flagVars, mainVars, obsVars, elapsed, genVars>>

\* time passes while the caller waits for the child
Tick ==
    /\ pc = "reflectWait"
    /\ child = "running"
    /\ elapsed < ChildTimeout
    /\ elapsed' = elapsed + 1
    /\ UNCHANGED <<flagVars, mainVars, obsVars, child, childOut, genVars>>

\* ReflectMode returns: the child has exited or the timeout has expired
ReflectReturn ==
    /\ pc = "reflectWait"
    /\ child = "exited" \/ Expired(elapsed)
    /\ LET r == ReflectModeResult(packageName, child, childOut)
       IN  /\ pkg' = r.pkg
           /\ err' = r.err
           /\ calls' = [calls EXCEPT ![Len(calls)].pkg = r.pkg]
    /\ child' = IF child = "running" THEN "killed" ELSE child
    /\ pc' = "loaded"
    /\ UNCHANGED <<flagVars, cwdErr, packageName, interfaces, exitStatus,
                   logged, usagePrinted, stdout, elapsed, childOut, genVars>>

\* if err != nil { log.Fatalf("Loading input failed: %v", err) }
LoadFatal ==
    /\ pc = "loaded"
    /\ LoadFailed(err)
    /\ Fatal("Loading input failed")
    /\ UNCHANGED <<flagVars, pkg, err, cwdErr, packageName, interfaces,
                   calls, usagePrinted, stdout, childVars, genVars>>

\* if debugParser { pkg.Print(os.Stdout); return }
DebugDump ==
    /\ pc = "loaded"
    /\ ~LoadFailed(err)
    /\ DumpOnly(debugParser)
    /\ calls' = Append(calls, Call("Print", Empty, <<>>, pkg))
    /\ stdout' = "dump"
    /\ Return
    /\ UNCHANGED <<flagVars, pkg, err, cwdErr, packageName, interfaces,
                   logged, usagePrinted, childVars, genVars>>

\* g.Generate(pkg, packageName, flag.Arg(1), flags) is entered
GenerateStart ==
    /\ pc = "loaded"
    /\ ~LoadFailed(err)
    /\ ~DumpOnly(debugParser)
    /\ calls' = Append(calls, Call("Generate", packageName, Arg(1), pkg))
    /\ pc' = "validate"
    /\ UNCHANGED <<flagVars, pkg, err, cwdErr, packageName, interfaces,
                   exitStatus, logged, usagePrinted, stdout, childVars,
                   genVars>>

\* validation pass: resolve the output name of the next interface
ValidateStep ==
    /\ pc = "validate"
    /\ Len(plan) < Len(pkg.Interfaces)
    /\ LET name == pkg.Interfaces[Len(plan) + 1]
           mock == MockNameFor(name, Flags.MockNames)
       IN  IF NameTaken(plan, mock)
           THEN /\ genErr' = "DuplicateMockNameError"
                /\ pc' = "generated"
                /\ plan' = plan
           ELSE /\ plan' = Append(plan, [iface |-> name, mock |-> mock])
                /\ UNCHANGED <<genErr, pc>>
    /\ UNCHANGED <<flagVars, pkg, err, cwdErr, packageName, interfaces,
                   obsVars, childVars, buf, outErr, dest>>

\* the validation pass has covered the whole Package
ValidateDone ==
    /\ pc = "validate"
    /\ Len(plan) = Len(pkg.Interfaces)
    /\ pc' = "emit"
    /\ UNCHANGED <<flagVars, pkg, err, cwdErr, packageName, interfaces,
                   obsVars, childVars, genVars>>

\* emission pass: one fake type per entry of the plan
EmitStep ==
    /\ pc = "emit"
    /\ Len(buf) < Len(plan)
    /\ buf' = Append(buf, plan[Len(buf) + 1])
    /\ UNCHANGED <<flagVars, mainVars, obsVars, childVars, plan, genErr,
                   outErr, dest>>

EmitDone ==
    /\ pc = "emit"
    /\ Len(buf) = Len(plan)
    /\ pc' = "generated"
    /\ UNCHANGED <<flagVars, pkg, err, cwdErr, packageName, interfaces,
                   obsVars, childVars, genVars>>

\* if err := g.Generate(...); err != nil { log.Fatalf("Failed generating mock: %v", err) }
GenerateFatal ==
    /\ pc = "generated"
    /\ GenerateFailed(genErr)
    /\ Fatal("Failed generating mock")
    /\ UNCHANGED <<flagVars, pkg, err, cwdErr, packageName, interfaces,
                   calls, usagePrinted, stdout, childVars, genVars>>

\* if err := g.OutputToDestination(destination); err != nil { log.Fatalf(...) }
OutputToDestination ==
    /\ pc = "generated"
    /\ ~GenerateFailed(genErr)
    /\ calls' = Append(calls, Call("OutputToDestination", destination, <<>>, Nil))
    /\ \E e \in {NoErr, "OutputError"} :
        /\ outErr' = e
        /\ IF OutputFailed(e)
           THEN /\ Fatal("Failed output")
                /\ dest' = dest
           ELSE /\ dest' = [written |-> TRUE, content |-> buf]
                /\ Return
                /\ logged' = logged
    /\ UNCHANGED <<flagVars, pkg, err, cwdErr, packageName, interfaces,
                   usagePrinted, stdout, childVars, plan, buf, genErr>>

Next ==
    \/ FlagParse
    \/ PrintVersion
    \/ CallSourceMode
    \/ UsageFatal
    \/ ReadArgs
    \/ Getwd
    \/ PackageNameOfDir
    \/ ReflectStart
    \/ ChildExit
    \/ Tick
    \/ ReflectReturn
    \/ LoadFatal
    \/ DebugDump
    \/ GenerateStart
    \/ ValidateStep
    \/ ValidateDone
    \/ EmitStep
    \/ EmitDone
    \/ GenerateFatal
    \/ OutputToDestination

Spec == Init /\ [][Next]_vars

\* the main goroutine always takes its next step and time always passes;
\* nothing obliges the child process to end
MainStep ==
    \/ FlagParse \/ PrintVersion \/ CallSourceMode \/ UsageFatal \/ ReadArgs \/ Getwd
    \/ PackageNameOfDir \/ ReflectStart \/ Tick \/ ReflectReturn
    \/ LoadFatal \/ DebugDump \/ GenerateStart \/ ValidateStep
    \/ ValidateDone \/ EmitStep \/ EmitDone \/ GenerateFatal
    \/ OutputToDestination
FairSpec == Init /\ [][Next]_vars /\ WF_vars(MainStep)

----------------------------------------------------------------------------
(* Shorthands for the properties *)
Extractions == CallsOf("SourceMode") \cup CallsOf("ReflectMode")
Extracted == \E e \in Extractions : calls[e].pkg.valid
Exited == pc = "exit"
Accepted == cmdline.form = "ok"
WrongCountLine ==
    /\ ~cmdline.showVersion
    /\ cmdline.source = Empty
    /\ Len(cmdline.args) # 2
WrongCountRun == Accepted /\ WrongCountLine
EmittedInterfaces(b) == {b[i].iface : i \in 1..Len(b)}
HasDuplicateName ==
    \E i, j \in 1..Len(pkg.Interfaces) :
        /\ i < j
        /\ MockNameFor(pkg.Interfaces[i], mockNames)
             = MockNameFor(pkg.Interfaces[j], mockNames)

(* C1, as stated: at most one extractor is invoked per run, ReflectMode
   only when -source is empty, and a finished run has invoked SourceMode
   exactly when -source is non-empty. *)
C1_SourceModeIffSourceFlag ==
    /\ Count("SourceMode") + Count("ReflectMode") <= 1
    /\ Count("ReflectMode") > 0 => cmdline.source = Empty
    /\ Exited => (Count("SourceMode") = 1 <=> cmdline.source # Empty)

(* C1, amended: at most one extractor is invoked per run, ReflectMode only
   when -source is empty, and a finished run has invoked SourceMode exactly
   when flag.Parse accepted the command line, -source is non-empty and
   -version is not set. *)
C1_ExtractorSelection ==
    /\ Count("SourceMode") + Count("ReflectMode") <= 1
    /\ Count("ReflectMode") > 0 => cmdline.source = Empty
    /\ Exited => (Count("SourceMode") = 1 <=>
                    (Accepted /\ cmdline.source # Empty /\ ~cmdline.showVersion))

C1_Witness ==
    /\ Exited
    /\ Count("SourceMode") = 1
    /\ Count("ReflectMode") = 0
    /\ Len(args) = 2

(* C2: once the extraction or Generate has returned an error,
   OutputToDestination is never invoked and the destination is untouched. *)
C2_NoOutputAfterError ==
    (err # NoErr \/ genErr # NoErr) =>
        /\ Count("OutputToDestination") = 0
        /\ ~dest.written
        /\ dest.content = <<>>

C2_Witness ==
    /\ Exited
    /\ genErr # NoErr
    /\ Count("Generate") = 1
    /\ Count("OutputToDestination") = 0

(* C3, as stated: every finished run has invoked exactly one extractor and
   has called Generate exactly once, with the Package the extractor built. *)
C3_EveryRunExtractsAndGenerates ==
    Exited =>
        /\ Cardinality(Extractions) = 1
        /\ Count("Generate") = 1
        /\ \A g \in CallsOf("Generate") : \A e \in Extractions :
               calls[g].pkg = calls[e].pkg

(* C3, amended: in every run at most one extractor is invoked and Generate
   is called at most once, only after the extraction and with the valid
   Package exactly as the extractor returned it; a finished run has called
   Generate exactly once exactly when its extractor returned a Package and
   -debug_parser is not set. *)
C3_PackageLifecycle ==
    /\ Cardinality(Extractions) <= 1
    /\ Count("Generate") <= 1
    /\ \A g \in CallsOf("Generate") :
          /\ calls[g].pkg.valid
          /\ \E e \in Extractions : e < g /\ calls[e].pkg = calls[g].pkg
          /\ pkg = calls[g].pkg
    /\ Exited => (Count("Generate") = 1 <=> (Extracted /\ ~cmdline.debugParser))

C3_Witness ==
    /\ Exited
    /\ Count("ReflectMode") = 1
    /\ Count("Generate") = 1
    /\ Len(pkg.Interfaces) = 2

(* C4: with -debug_parser, a run whose extraction succeeds dumps the Model
   (pkg.Print) and never calls Generate or OutputToDestination; without
   -debug_parser the Model is never dumped. *)
C4_DebugDumpInsteadOfGeneration ==
    /\ ~cmdline.debugParser => Count("Print") = 0 /\ stdout # "dump"
    /\ cmdline.debugParser =>
          Count("Generate") = 0 /\ Count("OutputToDestination") = 0
    /\ (Exited /\ cmdline.debugParser /\ Extracted) =>
          /\ Count("Print") = 1
          /\ stdout = "dump"
          /\ \A d \in CallsOf("Print") : calls[d].pkg = pkg /\ pkg.valid

C4_Witness ==
    /\ Exited
    /\ cmdline.debugParser
    /\ Count("SourceMode") = 1
    /\ Count("Print") = 1
    /\ pkg.Interfaces # <<>>

(* C5: a finished run in which any step failed (command line rejected,
   argument count, current directory, package name, extraction, Generate,
   OutputToDestination) has a non-zero status and has reported exactly one
   error message; a run with status 0 had no failure and reported no
   error. *)
C5_FailureMeansNonZeroExit ==
    LET failure == \/ cmdline.form = "bad"
                   \/ WrongCountRun
                   \/ cwdErr # NoErr
                   \/ err # NoErr
                   \/ genErr # NoErr
                   \/ outErr # NoErr
    IN  /\ Exited <=> exitStatus # Running
        /\ exitStatus \in {Running, 0, 1, 2}
        /\ Exited =>
              /\ failure => exitStatus # 0 /\ Len(logged) = 1
              /\ exitStatus = 0 => ~failure /\ logged = <<>>

C5_Witness ==
    /\ Exited
    /\ outErr # NoErr
    /\ exitStatus = 1
    /\ logged = <<"Failed output">>

(* C6: no interface named in -exclude_interfaces is ever emitted, in either
   mode, and what is written is the extracted interfaces minus the excluded
   names. *)
C6_ExcludedNeverEmitted ==
    /\ EmittedInterfaces(buf) \cap ExcludeSet(excludeInterfaces) = {}
    /\ dest.written =>
          EmittedInterfaces(dest.content)
            = Range(pkg.Interfaces) \ ExcludeSet(excludeInterfaces)

(* C7: when two interfaces resolve to the same output name Generate fails
   with DuplicateMockNameError; the emission pass starts only after the
   validation pass has covered the whole Package, and the buffer is empty
   whenever Generate has failed. *)
C7_DuplicateNameFailsBeforeEmission ==
    /\ genErr # NoErr => buf = <<>> /\ ~dest.written
    /\ buf # <<>> => Len(plan) = Len(pkg.Interfaces) /\ genErr = NoErr
    /\ (Count("Generate") = 1 /\ pc \in {"generated", "exit"}) =>
          (genErr = "DuplicateMockNameError" <=> HasDuplicateName)

C7_Witness ==
    /\ Exited
    /\ genErr = "DuplicateMockNameError"
    /\ HasDuplicateName
    /\ buf = <<>>

(* C9: a run waiting for the introspection child always eventually ends,
   and whenever the child did not exit cleanly with a complete output,
   ReflectMode has returned ReflectionExecutionError and no Package. *)
C9_ReflectModeTerminates ==
    /\ (pc = "reflectWait") ~> Exited
    /\ []((Count("ReflectMode") = 1 /\ pc \notin {"reflect", "reflectWait"}) =>
            IF child = "exited" /\ childOut.outcome = "ok"
            THEN err = NoErr /\ pkg.valid /\ pkg.Interfaces = interfaces
            ELSE err = "ReflectionExecutionError" /\ pkg = Nil)

C9_Witness ==
    /\ Exited
    /\ child = "killed"
    /\ err = "ReflectionExecutionError"
    /\ exitStatus = 1

(* C10, as stated: a run whose command line has no -source and no -version
   and whose argument count is not 2 prints the usage and aborts with a
   fatal error (non-zero status, an error message) before ReflectMode,
   Generate or OutputToDestination; ReflectMode is entered only with two
   arguments; when the first argument is ".", ReflectMode and Generate
   receive the name PackageNameOfDir returned, never ".". *)
C10_WrongCountAlwaysFatal ==
    /\ WrongCountLine =>
          /\ Count("ReflectMode") = 0
          /\ Count("Generate") = 0
          /\ Count("OutputToDestination") = 0
          /\ Exited => /\ usagePrinted
                       /\ logged # <<>>
                       /\ exitStatus # 0
    /\ Count("ReflectMode") > 0 => Len(cmdline.args) = 2
    /\ (cmdline.source = Empty /\ Len(cmdline.args) >= 1
            /\ cmdline.args[1] = Dot) =>
          \A c \in CallsOf("ReflectMode") \cup CallsOf("Generate") :
              calls[c].loc # Dot

(* C10, amended: unless the command line asks for help (-h, -help: usage
   is printed and the status is 0), a run without -source and -version
   whose argument count is not 2 prints the usage and aborts with one error
   message and a non-zero status (the fatal "Expected exactly two
   arguments", status 1, when flag.Parse accepted the command line) before
   ReflectMode, Generate or OutputToDestination; ReflectMode is entered
   only with two arguments; when the first argument is ".", ReflectMode and
   Generate receive the name PackageNameOfDir returned, never ".". *)
C10_ReflectModeArguments ==
    /\ WrongCountLine =>
          /\ Count("ReflectMode") = 0
          /\ Count("Generate") = 0
          /\ Count("OutputToDestination") = 0
          /\ Exited =>
                /\ usagePrinted
                /\ cmdline.form = "help" => exitStatus = 0 /\ logged = <<>>
                /\ cmdline.form = "bad" => exitStatus = 2 /\ Len(logged) = 1
                /\ Accepted => /\ logged = <<"Expected exactly two arguments">>
                               /\ exitStatus = 1
    /\ Count("ReflectMode") > 0 => Accepted /\ Len(cmdline.args) = 2
    /\ (cmdline.source = Empty /\ Len(cmdline.args) >= 1
            /\ cmdline.args[1] = Dot) =>
          \A c \in CallsOf("ReflectMode") \cup CallsOf("Generate") :
              /\ calls[c].loc # Dot
              /\ \E p \in CallsOf("PackageNameOfDir") :
                    p < c /\ calls[c].loc = calls[p].loc

C10_Witness ==
    /\ Exited
    /\ WrongCountRun
    /\ Len(args) = 3
    /\ usagePrinted
    /\ exitStatus = 1
====
